---- MODULE Spec2Model ----
(***************************************************************************)
(* Model of the token/session store of finance_planner_cli:                *)
(* cli/services/token_manager.py (TokenManager), the refresh call of       *)
(* cli/services/auth_client.py (AuthClient.refresh) and the documents of   *)
(* cli/models/schemas.py (TokenResponse, TokenStorage, TokenFile).         *)
(*                                                                         *)
(* Optional values (Python's Optional[...]) are sequences of length at     *)
(* most one: <<>> is None and <<x>> is the value x.  Python dicts are      *)
(* functions whose DOMAIN is the set of keys.                              *)
(***************************************************************************)
EXTENDS Integers, Sequences, FiniteSets, TLC

\* ---------------------------------------------------------------- bounds

\* Tenant identifiers range over 0..MaxTenant.
MaxTenant == 1

\* The clock runs over 0..MaxTime.
MaxTime == 1

\* ------------------------------------------------------------ value sets

Users == {"a@x.com", "b@x.com"}

None == <<>>

Some(x) == <<x>>

Tenants == 0 .. MaxTenant

\* expires_in of a TokenResponse: an int, zero (already expired) included.
ExpiresIn == {0, 1}

\* The exp claim of the access tokens: the instant 0 of the clock.
TokenExp == 0

\* A JWT whose payload carries a tenant_id claim of the given JSON shape:
\* "absent" (no such claim), "int", "numeric_string" (such as "1"),
\* "string" (not a number), "null", "list", "object".  tenant_claim is the
\* number an int or a numeric string denotes, None for the other shapes.
\* exp is the expiry the auth service stamped into the token by its own
\* clock.
JwtClaim(shape, c) ==
  [kind |-> "jwt", shape |-> shape, tenant_claim |-> c, exp |-> TokenExp]

\* A JWT whose payload carries the int tenant_id claim c (None: no such
\* claim).
Jwt(c) == JwtClaim(IF c = None THEN "absent" ELSE "int", c)

\* A string that is no JWT.
MalformedToken == [kind |-> "malformed"]

RefreshTok(c) == [kind |-> "refresh", n |-> c]

\* The refresh token "": an empty string, falsy in Python.
EmptyRefreshToken == [kind |-> "empty_string", n |-> None]

TenantClaims == {None} \cup {Some(t) : t \in Tenants}

\* TokenResponse(access_token, refresh_token, expires_in)
TokenResponse(c, ei) ==
  [access_token |-> Jwt(c), refresh_token |-> RefreshTok(c), expires_in |-> ei]

TokenResponses == {TokenResponse(c, ei) : c \in TenantClaims, ei \in ExpiresIn}

\* ----------------------------------------------------------------- codec

\* Python truthiness of an Optional[int]: None and 0 are falsy.
Truthy(opt) == opt # None /\ opt[1] # 0

\* TokenManager.get_tenant_id_from_token, the value it returns:
\* int(tenant_id) of an int or of a numeric string; None when the claim is
\* absent or null, when int() raises ValueError (a string that is no
\* number) and when the token does not decode (JWTError).
get_tenant_id_from_token(token) ==
  IF token.kind # "jwt" THEN None
  ELSE IF token.shape \in {"int", "numeric_string"} THEN Some(token.tenant_claim[1])
  ELSE None

\* TokenManager.get_tenant_id_from_token, the exception that leaves it ("":
\* none): int() of a list or of an object raises TypeError, which
\* `except (JWTError, ValueError, KeyError)` does not catch.
get_tenant_id_from_token_raises(token) ==
  IF token.kind = "jwt" /\ token.shape \in {"list", "object"} THEN "TypeError" ELSE ""

\* TokenManager._is_expired: datetime.now() >= expires_at
is_expired(t, expires_at) == t >= expires_at

\* TokenManager.is_token_expired: by the exp claim of the token; a token
\* that does not decode counts as expired.  No method of TokenManager
\* calls it.
is_token_expired(t, token) ==
  IF token.kind # "jwt" THEN TRUE ELSE is_expired(t, token.exp)

\* ------------------------------------------------------------- documents

\* TokenStorage(access_token, refresh_token, expires_at, tenant_id)
TokenStorage(at, rt, exp, tid) ==
  [access_token |-> at, refresh_token |-> rt, expires_at |-> exp, tenant_id |-> tid]

\* {}: the dict without keys.
EmptyDict == [x \in {} |-> None]

\* TokenFile(): the defaults of the pydantic model.
EmptyTokenFile ==
  [current_user |-> None, current_tenant_id |-> None,
   tokens |-> EmptyDict, tenant_preferences |-> EmptyDict]

\* dict.get(key): the value as an Optional.
DictGet(d, k) == IF k \in DOMAIN d THEN Some(d[k]) ELSE None

\* d[k] = v
DictSet(d, k, v) == [x \in DOMAIN d \cup {k} |-> IF x = k THEN v ELSE d[x]]

\* del d[k]
DictDel(d, k) == [x \in DOMAIN d \ {k} |-> d[x]]

\* --------------------------------------------------------- the store file

\* The content of the store path: no file, bytes that do not parse, or a
\* JSON document.  A JSON document of an older version may lack the keys
\* current_tenant_id and tenant_preferences (lacks: the top-level keys it
\* lacks) and the tenant_id of a record (no_tenant_id: the users whose
\* record lacks it).
MissingFile == [kind |-> "missing"]

\* Bytes that are no JSON: json.load raises JSONDecodeError.
GarbageFile == [kind |-> "garbage"]

\* JSON that is no object (a list, a number, a string, null):
\* TokenFile(**data) raises TypeError.
NonObjectFile == [kind |-> "json_non_object"]

\* A JSON object whose fields have the wrong shape: TokenFile(**data)
\* raises pydantic's ValidationError, a ValueError.
WrongShapeFile == [kind |-> "json_wrong_shape"]

\* Whether the filesystem takes a write of the store ("ok") or fails it
\* with OSError ("full": permission denied, no space left on the device).
VARIABLE disk

WriteFails == disk # "ok"

JsonFile(data) == [kind |-> "json", data |-> data]

\* json.dump(token_file.model_dump(), ...): every field of the model is
\* written, a None as null.
model_dump(tf) ==
  [current_user |-> tf.current_user,
   current_tenant_id |-> tf.current_tenant_id,
   tokens |-> tf.tokens,
   tenant_preferences |-> tf.tenant_preferences,
   lacks |-> {},
   no_tenant_id |-> {}]

\* TokenFile(**data): a key the document lacks takes the model's default,
\* so that "absent" and null are the same value afterwards.
ParseTokenFile(data) ==
  [current_user |-> data.current_user,
   current_tenant_id |->
     IF "current_tenant_id" \in data.lacks THEN None ELSE data.current_tenant_id,
   tokens |->
     IF data.no_tenant_id = {} THEN data.tokens
     ELSE [e \in DOMAIN data.tokens |->
             IF e \in data.no_tenant_id
               THEN [data.tokens[e] EXCEPT !.tenant_id = None]
               ELSE data.tokens[e]],
   tenant_preferences |->
     IF "tenant_preferences" \in data.lacks THEN EmptyDict ELSE data.tenant_preferences]

\* TokenManager._write_token_file as one process sees it when no other
\* process runs: the store path holds the dumped document afterwards.
write_token_file(tf) == JsonFile(model_dump(tf))

\* TokenManager._migrate_token_file: the migrated TokenFile and whether the
\* code set its flag "migrated" (and so writes the file back).
migrate_token_file(tf) ==
  LET need == {e \in DOMAIN tf.tokens : tf.tokens[e].tenant_id = None}
      derived(e) == get_tenant_id_from_token(tf.tokens[e].access_token)
      tokens == IF need = {} THEN tf.tokens
                ELSE [e \in DOMAIN tf.tokens |->
                        IF e \in need
                          THEN [tf.tokens[e] EXCEPT !.tenant_id = derived(e)]
                          ELSE tf.tokens[e]]
      added == {e \in need : Truthy(derived(e)) /\ e \notin DOMAIN tf.tenant_preferences}
      prefs == IF added = {} THEN tf.tenant_preferences
               ELSE [e \in DOMAIN tf.tenant_preferences \cup added |->
                       IF e \in added THEN derived(e)[1] ELSE tf.tenant_preferences[e]]
      adopt == /\ tf.current_user # None
               /\ tf.current_tenant_id = None
               /\ Truthy(DictGet(prefs, tf.current_user[1]))
      ctid == IF adopt THEN DictGet(prefs, tf.current_user[1]) ELSE tf.current_tenant_id
  IN [tf |-> [current_user |-> tf.current_user, current_tenant_id |-> ctid,
              tokens |-> tokens, tenant_preferences |-> prefs],
      migrated |-> need # {} \/ adopt,
      err |-> IF \E e \in need :
                   get_tenant_id_from_token_raises(tf.tokens[e].access_token) # ""
                THEN "TypeError" ELSE ""]

\* _migrate_token_file, lines 377-381: the file is written back when the
\* flag is set; an exception of line 362 or of the write leaves the file as
\* it was.
Migrated(file, m) ==
  IF m.err # "" THEN [tf |-> m.tf, file |-> file, writes |-> 0, err |-> m.err]
  ELSE IF m.migrated /\ WriteFails
    THEN [tf |-> m.tf, file |-> file, writes |-> 0, err |-> "OSError"]
  ELSE [tf |-> m.tf,
        file |-> IF m.migrated THEN write_token_file(m.tf) ELSE file,
        writes |-> IF m.migrated THEN 1 ELSE 0,
        err |-> ""]

\* TokenManager._read_token_file: the TokenFile read, the store file
\* afterwards, the number of writes the load made and the exception that
\* leaves it ("": none).  JSONDecodeError and ValueError are caught and
\* give TokenFile(); every other exception leaves.
read_token_file(file) ==
  IF file.kind = "json"
    THEN Migrated(file, migrate_token_file(ParseTokenFile(file.data)))
    ELSE [tf |-> EmptyTokenFile, file |-> file, writes |-> 0,
          err |-> IF file.kind = "json_non_object" THEN "TypeError" ELSE ""]

\* ------------------------------------------------- the refresh collaborator

\* What the remote auth service does with one POST /auth/refresh: answers
\* 200 with a TokenResponse, answers 401 or another status, or cannot be
\* connected to, or does not answer within the timeout.
RefreshAnswers ==
  {[kind |-> "response", status |-> 200, body |-> r] : r \in TokenResponses}
    \cup {[kind |-> "response", status |-> 401], [kind |-> "response", status |-> 500],
          [kind |-> "connect_error"], [kind |-> "timeout"]}

\* AuthClient.refresh: the TokenResponse of a 200, AuthenticationError for
\* every other status, ServiceNotRunningError for httpx.ConnectError; a
\* timeout (httpx.TimeoutException) is not caught and leaves as it is.
refresh(refresh_token, answer) ==
  IF answer.kind = "connect_error" THEN [raised |-> "ServiceNotRunningError"]
  ELSE IF answer.kind = "timeout" THEN [raised |-> "TimeoutException"]
  ELSE IF answer.status = 200 THEN [raised |-> "", value |-> answer.body]
  ELSE [raised |-> "AuthenticationError"]

\* ------------------------------------------------------------ operations

\* What one call of a TokenManager method does: the store file afterwards,
\* the value returned (ret), the exception raised ("" for none) and the
\* exception it wraps (cause), the calls made to the refresh collaborator
\* (calls: the refresh token sent and the answer) and the number of writes
\* of the store file.
Effect(file, ret, err, cause, calls, writes) ==
  [file |-> file, ret |-> ret, err |-> err, cause |-> cause,
   calls |-> calls, writes |-> writes]

Returns(file, ret, writes) == Effect(file, ret, "", "", <<>>, writes)

Raises(file, err, writes) == Effect(file, None, err, "", <<>>, writes)

\* The exception of _read_token_file leaves the method that called it.
ReadFailed(r) == Raises(r.file, r.err, r.writes)

\* self._write_token_file(token_file) as the last line of a method whose
\* read was r: the method returns None, or the OSError of the write leaves
\* it and the store file stays as it was.
Write(r, tf) ==
  IF WriteFails THEN Raises(r.file, "OSError", r.writes)
  ELSE Returns(write_token_file(tf), None, r.writes + 1)

\* save_token that stores the record and leaves current_user as it was.
save_token_keeps_current_user(file, t, email, token_response) ==
  LET expires_at == t + token_response.expires_in
      tenant_id == get_tenant_id_from_token(token_response.access_token)
      token_storage == TokenStorage(token_response.access_token,
                                    token_response.refresh_token,
                                    expires_at, tenant_id)
      r == read_token_file(file)
      tf == [current_user |-> r.tf.current_user,
             current_tenant_id |->
               IF Truthy(tenant_id) THEN tenant_id ELSE r.tf.current_tenant_id,
             tokens |-> DictSet(r.tf.tokens, email, token_storage),
             tenant_preferences |->
               IF Truthy(tenant_id)
                 THEN DictSet(r.tf.tenant_preferences, email, tenant_id[1])
                 ELSE r.tf.tenant_preferences]
  IN Returns(write_token_file(tf), None, r.writes + 1)

\* save_token that forgets the tenant preference of the user when the
\* token yields no tenant.
save_token_resets_preference(file, t, email, token_response) ==
  LET tenant_id == get_tenant_id_from_token(token_response.access_token)
      token_storage == TokenStorage(token_response.access_token,
                                    token_response.refresh_token,
                                    t + token_response.expires_in, tenant_id)
      r == read_token_file(file)
      tf == [current_user |-> Some(email),
             current_tenant_id |->
               IF Truthy(tenant_id) THEN tenant_id ELSE r.tf.current_tenant_id,
             tokens |-> DictSet(r.tf.tokens, email, token_storage),
             tenant_preferences |->
               IF Truthy(tenant_id)
                 THEN DictSet(r.tf.tenant_preferences, email, tenant_id[1])
                 ELSE DictDel(r.tf.tenant_preferences, email)]
  IN Returns(write_token_file(tf), None, r.writes + 1)

\* The update of save_token that gives the record of a token without a
\* tenant the document's current_tenant_id.
save_token_update_inherits_tenant(tf, t, email, token_response) ==
  LET derived == get_tenant_id_from_token(token_response.access_token)
      tenant_id == IF derived = None THEN tf.current_tenant_id ELSE derived
      token_storage == TokenStorage(token_response.access_token,
                                    token_response.refresh_token,
                                    t + token_response.expires_in, tenant_id)
  IN [current_user |-> Some(email),
      current_tenant_id |->
        IF Truthy(tenant_id) THEN tenant_id ELSE tf.current_tenant_id,
      tokens |-> DictSet(tf.tokens, email, token_storage),
      tenant_preferences |->
        IF Truthy(tenant_id)
          THEN DictSet(tf.tenant_preferences, email, tenant_id[1])
          ELSE tf.tenant_preferences]

\* The update of save_token that keeps no record but the one it builds.
save_token_update_drops_others(tf, t, email, token_response) ==
  LET tenant_id == get_tenant_id_from_token(token_response.access_token)
      token_storage == TokenStorage(token_response.access_token,
                                    token_response.refresh_token,
                                    t + token_response.expires_in, tenant_id)
  IN [current_user |-> Some(email),
      current_tenant_id |->
        IF Truthy(tenant_id) THEN tenant_id ELSE tf.current_tenant_id,
      tokens |-> DictSet(EmptyDict, email, token_storage),
      tenant_preferences |->
        IF Truthy(tenant_id)
          THEN DictSet(tf.tenant_preferences, email, tenant_id[1])
          ELSE tf.tenant_preferences]

\* TokenManager.save_token, its lines 57-81: the TokenFile read, with the
\* record of `email` built from the response at time t.
save_token_update(tf, t, email, token_response) ==
  LET expires_at == t + token_response.expires_in
      tenant_id == get_tenant_id_from_token(token_response.access_token)
      token_storage == TokenStorage(token_response.access_token,
                                    token_response.refresh_token,
                                    expires_at, tenant_id)
  IN [current_user |-> Some(email),
      current_tenant_id |->
        IF Truthy(tenant_id) THEN tenant_id ELSE tf.current_tenant_id,
      tokens |-> DictSet(tf.tokens, email, token_storage),
      tenant_preferences |->
        IF Truthy(tenant_id)
          THEN DictSet(tf.tenant_preferences, email, tenant_id[1])
          ELSE tf.tenant_preferences]

\* TokenManager.save_token at time t; the exception of line 61 leaves
\* before the file is read.
save_token(file, t, email, token_response) ==
  IF get_tenant_id_from_token_raises(token_response.access_token) # ""
    THEN Raises(file, get_tenant_id_from_token_raises(token_response.access_token), 0)
    ELSE LET r == read_token_file(file)
         IN IF r.err # "" THEN ReadFailed(r)
            ELSE Write(r, save_token_update(r.tf, t, email, token_response))

\* TokenManager.get_refresh_token
get_refresh_token(file) ==
  LET r == read_token_file(file)
  IN IF r.err # "" THEN ReadFailed(r)
     ELSE IF r.tf.current_user = None THEN Returns(r.file, None, r.writes)
     ELSE IF r.tf.current_user[1] \notin DOMAIN r.tf.tokens
       THEN Returns(r.file, None, r.writes)
     ELSE Returns(r.file, Some(r.tf.tokens[r.tf.current_user[1]].refresh_token), r.writes)

\* TokenManager.get_current_user
get_current_user(file) ==
  LET r == read_token_file(file)
  IN IF r.err # "" THEN ReadFailed(r)
     ELSE Returns(r.file, r.tf.current_user, r.writes)

\* get_current_tenant_id that answers with the document's
\* current_tenant_id instead of the preference of the current user.
get_current_tenant_id_of_document(file) ==
  LET r == read_token_file(file)
  IN IF r.tf.current_user = None THEN Returns(r.file, None, r.writes)
     ELSE Returns(r.file, r.tf.current_tenant_id, r.writes)

\* TokenManager.get_current_tenant_id
get_current_tenant_id(file) ==
  LET r == read_token_file(file)
  IN IF r.err # "" THEN ReadFailed(r)
     ELSE IF r.tf.current_user = None THEN Returns(r.file, None, r.writes)
     ELSE Returns(r.file, DictGet(r.tf.tenant_preferences, r.tf.current_user[1]), r.writes)

\* TokenManager.list_users
list_users(file) ==
  LET r == read_token_file(file)
  IN IF r.err # "" THEN ReadFailed(r)
     ELSE Returns(r.file, Some(DOMAIN r.tf.tokens), r.writes)

\* `not refresh_token`: None or the empty string.
NoRefreshToken(opt) == opt = None \/ opt = Some(EmptyRefreshToken)

\* _refresh_current_token after its two reads, lines 295-312: rt is what
\* get_refresh_token did, cu what get_current_user did.
\* An exception of the two reads leaves as it is; inside the try, the
\* exception of AuthClient.refresh and the exception of save_token are
\* both caught by `except Exception` and wrapped in TokenRefreshError.
refresh_and_save(rt, cu, t, answer) ==
  IF rt.err # "" THEN rt
  ELSE IF cu.err # "" THEN [cu EXCEPT !.writes = @ + rt.writes]
  ELSE IF NoRefreshToken(rt.ret) \/ cu.ret = None
    THEN Raises(cu.file, "TokenNotFoundError", rt.writes + cu.writes)
    ELSE LET call == [refresh_token |-> rt.ret[1], answer |-> answer]
             resp == refresh(rt.ret[1], answer)
         IN IF resp.raised # ""
              THEN Effect(cu.file, None, "TokenRefreshError", resp.raised,
                          <<call>>, rt.writes + cu.writes)
              ELSE LET sv == save_token(cu.file, t, cu.ret[1], resp.value)
                   IN IF sv.err # ""
                        THEN Effect(sv.file, None, "TokenRefreshError", sv.err,
                                    <<call>>, rt.writes + cu.writes + sv.writes)
                        ELSE Effect(sv.file, Some(resp.value.access_token), "", "",
                                    <<call>>, rt.writes + cu.writes + sv.writes)

\* _refresh_current_token that returns the new access token and does not
\* save the response.
refresh_current_token_without_save(file, t, answer) ==
  LET rt == get_refresh_token(file)
      cu == get_current_user(rt.file)
      reads == rt.writes + cu.writes
  IN IF rt.ret = None \/ cu.ret = None
       THEN Raises(cu.file, "TokenNotFoundError", reads)
       ELSE LET call == [refresh_token |-> rt.ret[1], answer |-> answer]
                resp == refresh(rt.ret[1], answer)
            IN IF resp.raised # ""
                 THEN Effect(cu.file, None, "TokenRefreshError", resp.raised,
                             <<call>>, reads)
                 ELSE Effect(cu.file, Some(resp.value.access_token), "", "",
                             <<call>>, reads)

\* _refresh_current_token that drops the current user's record when the
\* refresh fails.
refresh_current_token_logout_on_failure(file, t, answer) ==
  LET rt == get_refresh_token(file)
      cu == get_current_user(rt.file)
      reads == rt.writes + cu.writes
  IN IF rt.ret = None \/ cu.ret = None
       THEN Raises(cu.file, "TokenNotFoundError", reads)
       ELSE LET call == [refresh_token |-> rt.ret[1], answer |-> answer]
                resp == refresh(rt.ret[1], answer)
            IN IF resp.raised # ""
                 THEN LET r == read_token_file(cu.file)
                      IN Effect(write_token_file(
                                  [r.tf EXCEPT !.tokens = DictDel(@, cu.ret[1])]),
                                None, "TokenRefreshError", resp.raised,
                                <<call>>, reads + r.writes + 1)
                 ELSE LET sv == save_token(cu.file, t, cu.ret[1], resp.value)
                      IN Effect(sv.file, Some(resp.value.access_token), "", "",
                                <<call>>, reads + sv.writes)

\* _refresh_current_token without the except clause: the exception of
\* AuthClient.refresh leaves as it is.
refresh_current_token_unwrapped(file, t, answer) ==
  LET rt == get_refresh_token(file)
      cu == get_current_user(rt.file)
      reads == rt.writes + cu.writes
  IN IF rt.ret = None \/ cu.ret = None
       THEN Raises(cu.file, "TokenNotFoundError", reads)
       ELSE LET call == [refresh_token |-> rt.ret[1], answer |-> answer]
                resp == refresh(rt.ret[1], answer)
            IN IF resp.raised # ""
                 THEN Effect(cu.file, None, resp.raised, "", <<call>>, reads)
                 ELSE LET sv == save_token(cu.file, t, cu.ret[1], resp.value)
                      IN Effect(sv.file, Some(resp.value.access_token), "", "",
                                <<call>>, reads + sv.writes)

\* TokenManager._refresh_current_token at time t, the collaborator giving
\* `answer` if it is called
refresh_current_token(file, t, answer) ==
  LET rt == get_refresh_token(file)
  IN refresh_and_save(rt, get_current_user(rt.file), t, answer)

\* get_current_token that refreshes an expired token whatever auto_refresh
\* says.
get_current_token_always_refreshes(file, t, auto_refresh, answer) ==
  LET r == read_token_file(file)
  IN IF r.tf.current_user = None THEN Returns(r.file, None, r.writes)
     ELSE IF r.tf.current_user[1] \notin DOMAIN r.tf.tokens
       THEN Returns(r.file, None, r.writes)
     ELSE LET token_storage == r.tf.tokens[r.tf.current_user[1]]
          IN IF is_expired(t, token_storage.expires_at)
               THEN LET rf == refresh_current_token(
                                r.file, t,
                                IF auto_refresh THEN answer ELSE [kind |-> "timeout"])
                    IN [rf EXCEPT !.writes = @ + r.writes]
               ELSE Returns(r.file, Some(token_storage.access_token), r.writes)

\* get_current_token that decides by the exp claim of the stored access
\* token, and raises when that has passed.
get_current_token_by_exp_claim(file, t, auto_refresh, answer) ==
  LET r == read_token_file(file)
  IN IF r.tf.current_user = None THEN Returns(r.file, None, r.writes)
     ELSE IF r.tf.current_user[1] \notin DOMAIN r.tf.tokens
       THEN Returns(r.file, None, r.writes)
     ELSE LET token_storage == r.tf.tokens[r.tf.current_user[1]]
          IN IF is_token_expired(t, token_storage.access_token)
               THEN Raises(r.file, "TokenExpiredError", r.writes)
               ELSE Returns(r.file, Some(token_storage.access_token), r.writes)

\* TokenManager.get_current_token at time t
get_current_token(file, t, auto_refresh, answer) ==
  LET r == read_token_file(file)
  IN IF r.err # "" THEN ReadFailed(r)
     ELSE IF r.tf.current_user = None THEN Returns(r.file, None, r.writes)
     ELSE IF r.tf.current_user[1] \notin DOMAIN r.tf.tokens
       THEN Returns(r.file, None, r.writes)
     ELSE LET token_storage == r.tf.tokens[r.tf.current_user[1]]
          IN IF is_expired(t, token_storage.expires_at)
               THEN IF auto_refresh
                      THEN LET rf == refresh_current_token(r.file, t, answer)
                           IN [rf EXCEPT !.writes = @ + r.writes]
                      ELSE Raises(r.file, "TokenExpiredError", r.writes)
               ELSE Returns(r.file, Some(token_storage.access_token), r.writes)

\* logout that removes the record and leaves current_user as it was.
logout_keeps_current_user(file, email) ==
  LET r == read_token_file(file)
      target_email == IF email # None THEN email ELSE r.tf.current_user
      tokens == IF target_email # None /\ target_email[1] \in DOMAIN r.tf.tokens
                  THEN DictDel(r.tf.tokens, target_email[1])
                  ELSE r.tf.tokens
  IN Returns(write_token_file([r.tf EXCEPT !.tokens = tokens]), None, r.writes + 1)

\* logout that removes the tenant preference of the target with the record.
logout_forgets_preference(file, email) ==
  LET r == read_token_file(file)
      target_email == IF email # None THEN email ELSE r.tf.current_user
      tf == [r.tf EXCEPT
               !.tokens = IF target_email # None /\ target_email[1] \in DOMAIN @
                            THEN DictDel(@, target_email[1]) ELSE @,
               !.tenant_preferences =
                 IF target_email # None /\ target_email[1] \in DOMAIN @
                   THEN DictDel(@, target_email[1]) ELSE @,
               !.current_user = IF @ = target_email THEN None ELSE @]
  IN Returns(write_token_file(tf), None, r.writes + 1)

\* TokenManager.logout, its lines 167-175; email is None for the call
\* without argument.
logout_update(tf, email) ==
  LET target_email == IF email # None THEN email ELSE tf.current_user
      tokens == IF target_email # None /\ target_email[1] \in DOMAIN tf.tokens
                  THEN DictDel(tf.tokens, target_email[1])
                  ELSE tf.tokens
  IN [tf EXCEPT !.tokens = tokens,
                !.current_user = IF @ = target_email THEN None ELSE @]

\* TokenManager.logout
logout(file, email) ==
  LET r == read_token_file(file)
  IN IF r.err # "" THEN ReadFailed(r)
     ELSE Write(r, logout_update(r.tf, email))

\* switch_user that makes any email the current user, with or without a
\* record.
switch_user_accepts_unknown(file, email) ==
  LET r == read_token_file(file)
  IN Returns(write_token_file([r.tf EXCEPT !.current_user = Some(email)]),
             None, r.writes + 1)

\* TokenManager.switch_user
switch_user(file, email) ==
  LET r == read_token_file(file)
  IN IF r.err # "" THEN ReadFailed(r)
     ELSE IF email \notin DOMAIN r.tf.tokens
       THEN Raises(r.file, "TokenNotFoundError", r.writes)
     ELSE Write(r, [r.tf EXCEPT !.current_user = Some(email)])

\* switch_tenant that removes the record only of a user who had a tenant
\* preference before.
switch_tenant_keeps_first_record(file, tenant_id) ==
  LET r == read_token_file(file)
  IN IF r.tf.current_user = None
       THEN Raises(r.file, "TokenNotFoundError", r.writes)
       ELSE LET u == r.tf.current_user[1]
                tf == [r.tf EXCEPT
                         !.tenant_preferences = DictSet(@, u, tenant_id),
                         !.current_tenant_id = Some(tenant_id),
                         !.tokens = IF u \in DOMAIN @
                                       /\ u \in DOMAIN r.tf.tenant_preferences
                                      THEN DictDel(@, u) ELSE @]
            IN Returns(write_token_file(tf), None, r.writes + 1)

\* TokenManager.switch_tenant
switch_tenant(file, tenant_id) ==
  LET r == read_token_file(file)
  IN IF r.err # "" THEN ReadFailed(r)
     ELSE IF r.tf.current_user = None
       THEN Raises(r.file, "TokenNotFoundError", r.writes)
     ELSE LET u == r.tf.current_user[1]
          IN Write(r, [r.tf EXCEPT
                         !.tenant_preferences = DictSet(@, u, tenant_id),
                         !.current_tenant_id = Some(tenant_id),
                         !.tokens = IF u \in DOMAIN @ THEN DictDel(@, u) ELSE @])

\* ----------------------------------------------------------------- state

VARIABLES
  file,   \* the content of the store path
  now,    \* the clock (datetime.now())
  last,   \* the latest call: its name, its arguments and what it did
  paths,  \* concurrent processes: the files under the store path and under
          \* the temporary path, each with its content and its mode
  procs   \* concurrent processes: where each process is in its call

vars == <<file, now, last, paths, procs, disk>>

fsvars == <<paths, procs>>

\* The runs of one process at a time leave the processes' variables alone.
NoProcesses == paths = <<>> /\ procs = <<>>

\* The record of a call.
Last(op, args, e) ==
  [op |-> op, args |-> args, ret |-> e.ret, err |-> e.err, cause |-> e.cause,
   calls |-> e.calls, writes |-> e.writes]

\* TokenManager.__init__ on a path without a file writes TokenFile().
Init ==
  /\ file = write_token_file(EmptyTokenFile)
  /\ now = 0
  /\ last = Last("init", <<>>, Returns(file, None, 1))
  /\ NoProcesses
  /\ disk = "ok"

Call(op, args, effect) ==
  \E e \in {effect} :
    /\ file' = e.file
    /\ last' = Last(op, args, e)
    /\ UNCHANGED <<now, fsvars, disk>>

SaveToken(email, token_response) ==
  Call("save_token", <<email, token_response>>,
       save_token(file, now, email, token_response))

\* The collaborator answers only a call that is made: when no refresh is
\* due the answer is NoAnswer.
NoAnswer == [kind |-> "not_called"]

\* Whether get_current_token(auto_refresh) reaches AuthClient.refresh: the
\* current user's record is expired and auto-refresh is asked for.
RefreshDue(auto_refresh) ==
  LET tf == read_token_file(file).tf
  IN /\ auto_refresh
     /\ tf.current_user # None
     /\ tf.current_user[1] \in DOMAIN tf.tokens
     /\ is_expired(now, tf.tokens[tf.current_user[1]].expires_at)

\* The collaborator gives an answer in the calls that reach it, and in no
\* other.
GetCurrentToken(auto_refresh, answer) ==
  /\ (answer # NoAnswer) = RefreshDue(auto_refresh)
  /\ Call("get_current_token", <<auto_refresh>>,
          get_current_token(file, now, auto_refresh, answer))

GetRefreshToken == Call("get_refresh_token", <<>>, get_refresh_token(file))

GetCurrentUser == Call("get_current_user", <<>>, get_current_user(file))

GetCurrentTenantId == Call("get_current_tenant_id", <<>>, get_current_tenant_id(file))

ListUsers == Call("list_users", <<>>, list_users(file))

Logout(email) == Call("logout", <<email>>, logout(file, email))

SwitchUser(email) == Call("switch_user", <<email>>, switch_user(file, email))

SwitchTenant(tenant_id) ==
  Call("switch_tenant", <<tenant_id>>, switch_tenant(file, tenant_id))

\* Time passes between two calls.
Tick ==
  /\ now < MaxTime
  /\ now' = now + 1
  /\ last' = Last("tick", <<>>, Returns(file, None, 0))
  /\ UNCHANGED <<file, fsvars, disk>>

Next ==
  \/ \E email \in Users, r \in TokenResponses : SaveToken(email, r)
  \/ \E auto_refresh \in BOOLEAN, answer \in RefreshAnswers \cup {NoAnswer} :
       GetCurrentToken(auto_refresh, answer)
  \/ GetCurrentUser
  \/ GetCurrentTenantId
  \/ GetRefreshToken
  \/ ListUsers
  \/ \E email \in {None} \cup {Some(u) : u \in Users} : Logout(email)
  \/ \E email \in Users : SwitchUser(email)
  \/ \E tenant_id \in Tenants : SwitchTenant(tenant_id)
  \/ Tick

Spec == Init /\ [][Next]_vars

\* ------------------------------------------------- loading an older file

\* The loads of one run are counted up to MaxLoads.
MaxLoads == 2

\* The dicts with keys among S and values in V.
Dicts(S, V) == UNION {[K -> V] : K \in SUBSET S}

\* The records a store file may hold for a token: without the key
\* tenant_id (has = FALSE, written by a version without tenants), or with
\* it, holding what the token yields.
StoredRecords ==
  {x \in {[rec |-> TokenStorage(Jwt(c), RefreshTok(c), 1, tid), has |-> h] :
            c \in TenantClaims, tid \in TenantClaims, h \in BOOLEAN} :
     x.rec.tenant_id = (IF x.has THEN get_tenant_id_from_token(x.rec.access_token)
                                 ELSE None)}

\* The JSON documents a store file may hold when a TokenManager is
\* constructed on it: written by this version or by an older one.
StoredDocuments ==
  {[current_user |-> cu,
    current_tenant_id |-> ctid,
    tokens |-> [e \in DOMAIN recs |-> recs[e].rec],
    tenant_preferences |-> prefs,
    lacks |-> lacks,
    no_tenant_id |-> {e \in DOMAIN recs : ~recs[e].has}] :
     recs \in Dicts(Users, StoredRecords),
     cu \in {None} \cup {Some(u) : u \in Users},
     ctid \in TenantClaims,
     prefs \in Dicts(Users, Tenants),
     lacks \in SUBSET {"current_tenant_id", "tenant_preferences"}}

\* A document in which a key it lacks holds the default, and whose
\* current user has a record.
WellFormedDocument(d) ==
  /\ "current_tenant_id" \in d.lacks => d.current_tenant_id = None
  /\ "tenant_preferences" \in d.lacks => d.tenant_preferences = EmptyDict
  /\ d.current_user # None => d.current_user[1] \in DOMAIN d.tokens

\* TokenManager.__init__ on a path that holds a file leaves it as it is.
InitOnFile ==
  /\ file \in {JsonFile(d) : d \in {x \in StoredDocuments : WellFormedDocument(x)}}
  /\ now = 0
  /\ last = [op |-> "init", n |-> 0, writes |-> 0]
  /\ NoProcesses
  /\ disk = "ok"

\* One load of the store file (_read_token_file), as every method starts
\* with; n counts the loads.
Load ==
  /\ last.n < MaxLoads
  /\ \E r \in {read_token_file(file)} :
       /\ file' = r.file
       /\ last' = [op |-> "load", n |-> last.n + 1, writes |-> r.writes]
  /\ UNCHANGED <<now, fsvars, disk>>

NextOnFile == Load

SpecOnFile == InitOnFile /\ [][NextOnFile]_vars

\* ------------------------------------------------- concurrent processes

\* The CLI processes that run at the same time.
NumProcs == 2

Procs == 1 .. NumProcs

\* A file that open(temp_path, "w") has just created or truncated.
EmptyContent == [kind |-> "empty"]

\* The token a process saves for a user: a@x.com logs in to tenant 1, the
\* token of b@x.com names no tenant.
LoginResponse(u) ==
  IF u = "a@x.com" THEN TokenResponse(Some(1), 1) ELSE TokenResponse(None, 1)

\* fd: the file the process holds open, by where it is now: "tmp" under the
\* temporary path, "final" under the store path (renamed by another
\* process), "unlinked" under no path (renamed, then replaced).
IdleProc ==
  [pc |-> "idle", op |-> "", email |-> "", tf |-> EmptyTokenFile,
   then |-> "", fd |-> "", seen |-> "", err |-> ""]

\* One TokenManager exists on the path already: the store file holds
\* TokenFile() with mode 0600, and there is no temporary file.
InitProcesses ==
  /\ file = MissingFile
  /\ now = 0
  /\ last = [op |-> "init"]
  /\ paths = [final |-> [content |-> write_token_file(EmptyTokenFile), mode |-> "0600"],
              tmp |-> None]
  /\ procs = [p \in Procs |-> IdleProc]
  /\ disk = "ok"

FsStep(newpaths, newprocs) ==
  /\ paths' = newpaths
  /\ procs' = newprocs
  /\ UNCHANGED <<file, now, last, disk>>

\* A process starts a call of save_token(u, ...), logout() or
\* get_current_user().
Start(p, op, u) ==
  /\ procs[p].pc = "idle"
  /\ FsStep(paths, [procs EXCEPT ![p] = [IdleProc EXCEPT !.pc = "read", !.op = op,
                                                         !.email = u]])

\* A call has ended: the process keeps what it read under the store path
\* and the error that ended it.
Done(pr, err) == [IdleProc EXCEPT !.seen = pr.seen, !.err = err]

\* The lines of the call after its _read_token_file: get_current_user
\* returns, save_token and logout change the TokenFile and go on to
\* _write_token_file.
AfterRead(pr) ==
  IF pr.op = "get_current_user" THEN Done(pr, "")
  ELSE [pr EXCEPT !.pc = "open", !.then = "done",
                  !.tf = IF pr.op = "save_token"
                           THEN save_token_update(@, now, pr.email, LoginResponse(pr.email))
                           ELSE logout_update(@, None)]

\* _read_token_file, lines 316-325: the process reads what the store path
\* holds (seen); bytes that do not parse give TokenFile(); a migration that
\* changed something goes on to _write_token_file first.
ReadStore(p) ==
  /\ procs[p].pc = "read"
  /\ LET content == paths.final.content
         r == read_token_file(IF content = EmptyContent THEN GarbageFile ELSE content)
         pr == [procs[p] EXCEPT !.seen = content.kind, !.tf = r.tf]
     IN FsStep(paths, [procs EXCEPT ![p] = IF r.writes > 0
                                             THEN [pr EXCEPT !.pc = "open", !.then = "op"]
                                             ELSE AfterRead(pr)])

\* _write_token_file, line 389: open(temp_path, "w") truncates the file the
\* temporary path names, or creates one with the mode the umask gives.
OpenTemp(p) ==
  /\ procs[p].pc = "open"
  /\ FsStep([paths EXCEPT !.tmp = Some([content |-> EmptyContent,
                                        mode |-> IF @ = None THEN "0644" ELSE @[1].mode])],
            [procs EXCEPT ![p].pc = "close", ![p].fd = "tmp"])

\* What the file a process holds open contains.
Held(fd) ==
  CASE fd = "tmp" -> paths.tmp[1].content
    [] fd = "final" -> paths.final.content
    [] OTHER -> EmptyContent

\* _write_token_file, lines 389-390: the document is small enough to stay
\* in the buffer until the file is closed, and is then written from offset
\* 0.  Over the bytes another process has written meanwhile the result is
\* the document, or, when it is the shorter one, no JSON.
CloseTemp(p, clean) ==
  /\ procs[p].pc = "close"
  /\ clean \/ Held(procs[p].fd) # EmptyContent
  /\ LET content == IF clean THEN write_token_file(procs[p].tf) ELSE GarbageFile
         fd == procs[p].fd
     IN FsStep(CASE fd = "tmp" -> [paths EXCEPT !.tmp[1].content = content]
                 [] fd = "final" -> [paths EXCEPT !.final.content = content]
                 [] OTHER -> paths,
               [procs EXCEPT ![p].pc = "chmod", ![p].fd = ""])

\* _write_token_file, line 393: os.chmod(temp_path, 0o600) raises
\* FileNotFoundError when another process has renamed the file away.
ChmodTemp(p) ==
  /\ procs[p].pc = "chmod"
  /\ IF paths.tmp = None
       THEN FsStep(paths, [procs EXCEPT ![p] = Done(@, "FileNotFoundError")])
       ELSE FsStep([paths EXCEPT !.tmp[1].mode = "0600"],
                   [procs EXCEPT ![p].pc = "replace"])

\* The files the other processes hold open after the rename.
Renamed(fd) ==
  CASE fd = "tmp" -> "final"
    [] fd = "final" -> "unlinked"
    [] OTHER -> fd

\* _write_token_file, line 396: temp_path.replace(storage_path)
ReplaceStore(p) ==
  /\ procs[p].pc = "replace"
  /\ IF paths.tmp = None
       THEN FsStep(paths, [procs EXCEPT ![p] = Done(@, "FileNotFoundError")])
       ELSE FsStep([final |-> paths.tmp[1], tmp |-> None],
                   [q \in Procs |->
                      IF q = p
                        THEN IF procs[p].then = "op" THEN AfterRead(procs[p])
                                                    ELSE Done(procs[p], "")
                        ELSE [procs[q] EXCEPT !.fd = Renamed(@)]])

NextProcesses ==
  \E p \in Procs :
    \/ \E u \in Users : Start(p, "save_token", u)
    \/ Start(p, "logout", "")
    \/ Start(p, "get_current_user", "")
    \/ ReadStore(p)
    \/ OpenTemp(p)
    \/ \E clean \in BOOLEAN : CloseTemp(p, clean)
    \/ ChmodTemp(p)
    \/ ReplaceStore(p)

SpecProcesses == InitProcesses /\ [][NextProcesses]_vars

\* ------------------ corrupt files, odd tenant claims and failing writes

\* Access tokens by what get_tenant_id_from_token meets in them: every
\* shape of the tenant_id claim, and a string that is no JWT.
FaultTokens ==
  {Jwt(None), Jwt(Some(1)), JwtClaim("numeric_string", Some(1)),
   JwtClaim("string", None), JwtClaim("null", None), JwtClaim("list", None),
   JwtClaim("object", None), MalformedToken}

\* The responses of a login with these tokens; expires_in = 0, so that the
\* next get_current_token finds the record expired.
FaultResponses ==
  {[access_token |-> tok, refresh_token |-> RefreshTok(None), expires_in |-> 0] :
     tok \in FaultTokens}

\* The answers of the refresh collaborator: a 200 and a rejection.
FaultAnswers ==
  {[kind |-> "response", status |-> 200, body |-> TokenResponse(Some(1), 1)],
   [kind |-> "response", status |-> 401]}

\* The store file of a version without tenants: one record, of the current
\* user, without tenant_id; no tenant_preferences, no current_tenant_id.
OldFile(tok) ==
  JsonFile([current_user |-> Some("a@x.com"),
            current_tenant_id |-> None,
            tokens |-> [e \in {"a@x.com"} |->
                          TokenStorage(tok, RefreshTok(None), 1, None)],
            tenant_preferences |-> EmptyDict,
            lacks |-> {"current_tenant_id", "tenant_preferences"},
            no_tenant_id |-> {"a@x.com"}])

\* What the store path may hold when a TokenManager is constructed on it.
FaultyFiles ==
  {GarbageFile, NonObjectFile, WrongShapeFile, write_token_file(EmptyTokenFile)}
    \cup {OldFile(tok) : tok \in FaultTokens}

\* TokenManager.__init__ on a path that holds a file leaves it as it is.
InitFaults ==
  /\ file \in FaultyFiles
  /\ now = 0
  /\ last = Last("init", <<>>, Returns(file, None, 0))
  /\ NoProcesses
  /\ disk = "ok"

\* The filesystem starts to fail writes, or takes them again.
DiskChange ==
  /\ disk' = (IF disk = "ok" THEN "full" ELSE "ok")
  /\ UNCHANGED <<file, now, last, fsvars>>

NextFaults ==
  \/ \E email \in Users, r \in FaultResponses : SaveToken(email, r)
  \/ \E auto_refresh \in BOOLEAN, answer \in FaultAnswers \cup {NoAnswer} :
       GetCurrentToken(auto_refresh, answer)
  \/ Logout(None)
  \/ \E email \in Users : SwitchUser(email)
  \/ SwitchTenant(1)
  \/ DiskChange

SpecFaults == InitFaults /\ [][NextFaults]_vars

\* ------------------------------------------------------------ CLI commands

\* Commands that start with TokenManager().get_current_token(): one of
\* each way the commands handle its exceptions.
Commands ==
  {"accounts create", "accounts list", "transactions list", "tenants show",
   "auth whoami"}

\* The exception classes whose handler in the command prints "Please login
\* again: finance-cli auth login".  Every command ends with a handler of
\* Exception that prints "Error: ..." alone.
LoginAgainHandlers(cmd) ==
  IF cmd \in {"accounts create", "transactions list"}
    THEN {"AuthenticationError", "TokenRefreshError"}
    ELSE {"AuthenticationError"}

\* What the remote API does with the request of the command: answers 2xx,
\* answers 401, or cannot be connected to.
ApiAnswers == {"ok", "401", "connect_error"}

NoApi == "not_called"

\* How a command ends: the exit code of the process and whether it has
\* printed an instruction to log in.
Outcome(exit, login_hint) == [exit |-> exit, login_hint |-> login_hint]

\* Whether the command reaches its API request: get_current_token (effect
\* e) raised nothing and gave a token; auth whoami tests the current user
\* (cu) instead of the token.
CallsApi(cmd, cu, e) ==
  /\ e.err = ""
  /\ IF cmd = "auth whoami" THEN cu # None ELSE e.ret # None

\* The command after get_current_token.  typer.Exit is an Exception: the
\* Exit raised inside the try block for "Not logged in" is caught by the
\* last handler, which exits with 1.
command_outcome(cmd, cu, e, api) ==
  IF e.err # "" THEN Outcome(1, e.err \in LoginAgainHandlers(cmd))
  ELSE IF ~CallsApi(cmd, cu, e) THEN Outcome(1, TRUE)
  ELSE IF api = "ok" THEN Outcome(0, FALSE)
  ELSE IF api = "401" THEN Outcome(1, "AuthenticationError" \in LoginAgainHandlers(cmd))
  ELSE Outcome(1, FALSE)

\* One run of a command.
RunCommand(cmd, answer, api) ==
  /\ (answer # NoAnswer) = RefreshDue(TRUE)
  /\ \E e \in {get_current_token(file, now, TRUE, answer)},
        cu \in {get_current_user(file).ret} :
       /\ (api # NoApi) = CallsApi(cmd, cu, e)
       /\ file' = e.file
       /\ last' = [op |-> "command", args |-> <<cmd>>, ret |-> e.ret,
                   err |-> e.err, cause |-> e.cause, calls |-> e.calls,
                   writes |-> e.writes,
                   exit |-> command_outcome(cmd, cu, e, api).exit,
                   login_hint |-> command_outcome(cmd, cu, e, api).login_hint]
  /\ UNCHANGED <<now, fsvars, disk>>

\* The end of `auth logout`, lines 150-156, after the attempt to revoke:
\* lo is what TokenManager.logout(target) did.
auth_logout_local(lo, target, revoked) ==
  [file |-> lo.file, target |-> target, revoked |-> revoked, err |-> lo.err,
   exit |-> IF lo.err = "" THEN 0 ELSE 1]

\* `auth logout`, lines 140-148, after get_current_user: rt is what
\* get_refresh_token() did.  A refresh token that is not empty is sent to
\* AuthClient.logout; whatever that call raises is dropped.
auth_logout_revoke(rt, target) ==
  auth_logout_local(logout(rt.file, target), target,
                    IF rt.err = "" /\ ~NoRefreshToken(rt.ret) THEN rt.ret ELSE None)

\* The command `auth logout [--email X]`: cu is what get_current_user()
\* did.  The Exit(0) of "Not logged in" is caught by the handler of
\* Exception, which exits with 1.
auth_logout(cu, email) ==
  IF cu.err # "" \/ (cu.ret = None /\ email = None)
    THEN [file |-> cu.file, target |-> None, revoked |-> None, err |-> cu.err,
          exit |-> 1]
    ELSE auth_logout_revoke(get_refresh_token(cu.file),
                            IF email # None THEN email ELSE cu.ret)

\* What the auth service does with POST /auth/logout.
RevokeAnswers == {"revoked", "connect_error"}

AuthLogout(email, answer) ==
  /\ \E e \in {auth_logout(get_current_user(file), email)} :
       /\ (answer # NoApi) = (e.revoked # None)
       /\ file' = e.file
       /\ last' = [op |-> "auth_logout", args |-> <<email>>, target |-> e.target,
                   revoked |-> e.revoked, answer |-> answer, err |-> e.err,
                   exit |-> e.exit]
  /\ UNCHANGED <<now, fsvars, disk>>

\* What the auth service answers to the refresh of a command.
CommandAnswers ==
  {[kind |-> "response", status |-> 200, body |-> TokenResponse(Some(1), 1)],
   [kind |-> "response", status |-> 401], [kind |-> "connect_error"]}

\* `auth login` saves the tokens of the user: the two users hold different
\* refresh tokens.
NextCommands ==
  \/ \E u \in Users, ei \in ExpiresIn :
       SaveToken(u, [LoginResponse(u) EXCEPT !.expires_in = ei])
  \/ \E cmd \in Commands, answer \in CommandAnswers \cup {NoAnswer},
        api \in ApiAnswers \cup {NoApi} :
       RunCommand(cmd, answer, api)
  \/ \E email \in {None} \cup {Some(u) : u \in Users},
        answer \in RevokeAnswers \cup {NoApi} :
       AuthLogout(email, answer)
  \/ Tick

SpecCommands == Init /\ [][NextCommands]_vars

\* --------------------------------------------------- interleaved calls

\* Processes whose calls interleave between one access of the store file
\* and the next; here every _read_token_file and every _write_token_file
\* is one step.  A call in progress: its name (op), its argument (email),
\* the current user whose expired record made get_current_token refresh
\* (trig), the refresh token read at line 295 (rt) and the user whose
\* record held it (owner), the current user read at line 296 (cu), the
\* TokenResponse to save (resp) and the TokenFile to write (tf).  A
\* get_current_token that has ended keeps its name, what it gave and the
\* exception that ended it.
IdleCall ==
  [pc |-> "idle", op |-> "", email |-> None, trig |-> None, rt |-> None,
   owner |-> None, cu |-> None, resp |-> None, tf |-> EmptyTokenFile,
   gave |-> "", err |-> ""]

Ended(pr, gave, err) ==
  IF pr.op = "get_current_token"
    THEN [IdleCall EXCEPT !.op = pr.op, !.gave = gave, !.err = err]
    ELSE IdleCall

\* What `auth login` saves for a user: the tokens of LoginResponse, already
\* expired; for b@x.com the auth service may also send an empty refresh
\* token.
LoginResponses(u) ==
  {[LoginResponse(u) EXCEPT !.expires_in = 0]}
    \cup (IF u = "b@x.com"
            THEN {[LoginResponse(u) EXCEPT !.expires_in = 0,
                                           !.refresh_token = EmptyRefreshToken]}
            ELSE {})

\* What the auth service answers with 200 to a refresh token: the tokens
\* of the user the refresh token was issued to.
RefreshedFor(refresh_token) == TokenResponse(refresh_token.n, 1)

InitInterleaved ==
  /\ file = write_token_file(EmptyTokenFile)
  /\ now = 0
  /\ last = [op |-> "init", gone |-> {}]
  /\ paths = <<>>
  /\ procs = [p \in Procs |-> IdleCall]
  /\ disk = "ok"

\* last.gone: the users whose logout (or tenant switch) has completed and
\* for whom no login and no refresh has been started since.
ProcStepGone(newfile, p, pr, gone) ==
  /\ file' = newfile
  /\ procs' = [procs EXCEPT ![p] = pr]
  /\ last' = [op |-> "init", gone |-> gone]
  /\ UNCHANGED <<now, paths, disk>>

ProcStep(newfile, p, pr) == ProcStepGone(newfile, p, pr, last.gone)

\* A process starts a call.
StartCall(p, op, email) ==
  /\ procs[p].pc = "idle"
  /\ op \in {"get_current_token", "logout", "switch_user", "switch_tenant"}
  /\ ProcStep(file, p, [IdleCall EXCEPT !.pc = "read", !.op = op, !.email = email])

\* A process starts save_token(u, resp).
StartSave(p, u, resp) ==
  /\ procs[p].pc = "idle"
  /\ ProcStepGone(file, p,
                  [IdleCall EXCEPT !.pc = "save_read", !.op = "save_token",
                                   !.email = Some(u), !.resp = Some(resp)],
                  last.gone \ {u})

\* get_current_token, lines 100-116, with auto_refresh.
GctRead(p) ==
  /\ procs[p].pc = "read"
  /\ procs[p].op = "get_current_token"
  /\ \E r \in {read_token_file(file)} :
       IF r.tf.current_user = None
         THEN ProcStep(r.file, p, Ended(procs[p], "none", ""))
       ELSE IF r.tf.current_user[1] \notin DOMAIN r.tf.tokens
         THEN ProcStep(r.file, p, Ended(procs[p], "none", ""))
       ELSE IF is_expired(now, r.tf.tokens[r.tf.current_user[1]].expires_at)
         THEN ProcStepGone(r.file, p,
                           [procs[p] EXCEPT !.pc = "rt_read", !.trig = r.tf.current_user],
                           last.gone \ {r.tf.current_user[1]})
       ELSE ProcStep(r.file, p, Ended(procs[p], "token", ""))

\* _refresh_current_token, line 295: get_refresh_token()
RtRead(p) ==
  /\ procs[p].pc = "rt_read"
  /\ \E g \in {get_refresh_token(file)}, r \in {read_token_file(file)} :
       ProcStep(g.file, p,
         [procs[p] EXCEPT !.pc = "cu_read", !.rt = g.ret,
                          !.owner = IF g.ret = None THEN None ELSE r.tf.current_user])

\* _refresh_current_token, lines 296-299: get_current_user() and the test
\* of the two values.
CuRead(p) ==
  /\ procs[p].pc = "cu_read"
  /\ \E g \in {get_current_user(file)} :
       ProcStep(g.file, p,
         IF NoRefreshToken(procs[p].rt) \/ g.ret = None
           THEN Ended(procs[p], "", "TokenNotFoundError")
           ELSE [procs[p] EXCEPT !.pc = "refresh", !.cu = g.ret])

\* _refresh_current_token, lines 303-304 and 311-312: the auth service
\* answers 200 or 401.
RefreshCall(p, status) ==
  /\ procs[p].pc = "refresh"
  /\ ProcStep(file, p,
       IF status = 200
         THEN [procs[p] EXCEPT !.pc = "save_read", !.email = procs[p].cu,
                               !.resp = Some(RefreshedFor(procs[p].rt[1]))]
         ELSE Ended(procs[p], "", "TokenRefreshError"))

\* save_token, lines 57-81, called by a process or by the refresh.
SaveRead(p) ==
  /\ procs[p].pc = "save_read"
  /\ \E r \in {read_token_file(file)} :
       ProcStep(r.file, p,
         [procs[p] EXCEPT !.pc = "write",
                          !.tf = save_token_update(r.tf, now, procs[p].email[1],
                                                   procs[p].resp[1])])

\* logout, switch_user and switch_tenant up to their write; email becomes
\* the user whose record the call removes (target_email).
OpRead(p) ==
  /\ procs[p].pc = "read"
  /\ procs[p].op # "get_current_token"
  /\ \E r \in {read_token_file(file)} :
       ProcStep(r.file, p,
         IF procs[p].op = "logout"
           THEN [procs[p] EXCEPT !.pc = "write", !.tf = logout_update(r.tf, procs[p].email),
                                 !.email = IF @ # None THEN @ ELSE r.tf.current_user]
         ELSE IF procs[p].op = "switch_user"
           THEN IF procs[p].email[1] \notin DOMAIN r.tf.tokens
                  THEN Ended(procs[p], "", "TokenNotFoundError")
                  ELSE [procs[p] EXCEPT !.pc = "write",
                                        !.tf = [r.tf EXCEPT !.current_user = procs[p].email]]
         ELSE IF r.tf.current_user = None
           THEN Ended(procs[p], "", "TokenNotFoundError")
           ELSE [procs[p] EXCEPT
                   !.pc = "write",
                   !.email = r.tf.current_user,
                   !.tf = [r.tf EXCEPT
                             !.tenant_preferences = DictSet(@, r.tf.current_user[1], 1),
                             !.current_tenant_id = Some(1),
                             !.tokens = IF r.tf.current_user[1] \in DOMAIN @
                                          THEN DictDel(@, r.tf.current_user[1]) ELSE @]])

\* _write_token_file as the last line of the call.
WriteStore(p) ==
  /\ procs[p].pc = "write"
  /\ ProcStepGone(write_token_file(procs[p].tf), p,
                  Ended(procs[p], IF procs[p].op = "get_current_token" THEN "token" ELSE "none", ""),
                  IF procs[p].op \in {"logout", "switch_tenant"} /\ procs[p].email # None
                    THEN last.gone \cup {procs[p].email[1]}
                    ELSE last.gone)

\* Process 1 runs commands that need a token (get_current_token with
\* auto-refresh); the other processes run `auth login`, `auth logout`,
\* `auth switch` and the tenant switch.
NextInterleaved ==
  \E p \in Procs :
    \/ p = 1 /\ StartCall(p, "get_current_token", None)
    \/ p # 1 /\ \E email \in {None} \cup {Some(u) : u \in Users} :
                   StartCall(p, "logout", email)
    \/ p # 1 /\ \E u \in Users : StartCall(p, "switch_user", Some(u))
    \/ p # 1 /\ StartCall(p, "switch_tenant", None)
    \/ p # 1 /\ \E u \in Users : \E resp \in LoginResponses(u) : StartSave(p, u, resp)
    \/ GctRead(p)
    \/ RtRead(p)
    \/ CuRead(p)
    \/ \E status \in {200, 401} : RefreshCall(p, status)
    \/ SaveRead(p)
    \/ OpRead(p)
    \/ WriteStore(p)

SpecInterleaved == InitInterleaved /\ [][NextInterleaved]_vars

\* ---------------------------------------------------------------- claims

\* The TokenFile the store path holds.
Stored(f) == IF f.kind = "json" THEN ParseTokenFile(f.data) ELSE EmptyTokenFile

\* The current user has a record whose stored expires_at has passed at t.
Expired(f, t) ==
  LET tf == Stored(f)
  IN /\ tf.current_user # None
     /\ tf.current_user[1] \in DOMAIN tf.tokens
     /\ is_expired(t, tf.tokens[tf.current_user[1]].expires_at)

IsGet(l, auto_refresh) == l.op = "get_current_token" /\ l.args = <<auto_refresh>>

\* The collaborator answered the call of l with a 200.
Refreshed(l) ==
  /\ l.op = "get_current_token"
  /\ l.calls # <<>>
  /\ l.calls[1].answer.kind = "response"
  /\ l.calls[1].answer.status = 200

\* C1: a save_token(u, response) with expires_in > 0 followed immediately by
\* get_current_token(auto_refresh=False) returns the access token just
\* saved, and followed immediately by get_current_user() returns u.
C1_SaveThenGet ==
  [][(last.op = "save_token" /\ last.args[2].expires_in > 0) =>
       /\ IsGet(last', FALSE) =>
            (last'.err = "" /\ last'.ret = Some(last.args[2].access_token))
       /\ last'.op = "get_current_user" => last'.ret = Some(last.args[1])]_vars

\* C1: a save with expires_in > 0 has been made while the other user holds a
\* record, and get_current_token(False) yields the saved token there.
C1_Witness ==
  /\ last.op = "save_token"
  /\ last.args[2].expires_in > 0
  /\ Cardinality(DOMAIN Stored(file).tokens) = 2
  /\ get_current_token(file, now, FALSE, NoAnswer).ret = Some(last.args[2].access_token)

\* C2 as stated: current_user is None or a key of tokens.
C2_CurrentUserHasRecord ==
  LET tf == Stored(file)
  IN tf.current_user = None \/ tf.current_user[1] \in DOMAIN tf.tokens

\* C2 as amended: current_user is None, or a key of tokens, or a user in
\* the state switch_tenant leaves: without a record, with a tenant
\* preference that current_tenant_id equals.
C2_CurrentUserKnown ==
  LET tf == Stored(file)
  IN \/ tf.current_user = None
     \/ tf.current_user[1] \in DOMAIN tf.tokens
     \/ /\ tf.current_user[1] \in DOMAIN tf.tenant_preferences
        /\ tf.current_tenant_id = Some(tf.tenant_preferences[tf.current_user[1]])

\* C2: a logout has been made while the current user, who switched tenant
\* before, has no record.
C2_Witness ==
  LET tf == Stored(file)
  IN /\ last.op = "logout"
     /\ tf.current_user # None
     /\ tf.current_user[1] \notin DOMAIN tf.tokens

\* C3 as stated: whenever current_user is set, current_tenant_id equals
\* tenant_preferences[current_user], and is None without a preference.
C3_TenantMirrorsPreference ==
  LET tf == Stored(file)
  IN tf.current_user # None =>
       tf.current_tenant_id = DictGet(tf.tenant_preferences, tf.current_user[1])

\* C6, its first half: get_current_token(True) on an expired record calls
\* the collaborator exactly once, with the stored refresh token; on a 200 it
\* returns the new access token and the store holds the new tokens for the
\* same user, who stays the current user.
RefreshStep ==
  (IsGet(last', TRUE) /\ Expired(file, now)) =>
    LET u == Stored(file).current_user[1]
        body == last'.calls[1].answer.body
    IN /\ Len(last'.calls) = 1
       /\ last'.calls[1].refresh_token = Stored(file).tokens[u].refresh_token
       /\ Refreshed(last') =>
            /\ last'.err = ""
            /\ last'.ret = Some(body.access_token)
            /\ Stored(file').current_user = Some(u)
            /\ u \in DOMAIN Stored(file').tokens
            /\ Stored(file').tokens[u].access_token = body.access_token
            /\ Stored(file').tokens[u].refresh_token = body.refresh_token
            /\ Stored(file').tokens[u].expires_at = now + body.expires_in
            /\ \A v \in Users \ {u} :
                 DictGet(Stored(file').tokens, v) = DictGet(Stored(file).tokens, v)

\* The call after a successful refresh returns the same token and calls
\* the collaborator no more.
NoSecondRefresh ==
  last'.op = "get_current_token" =>
    (last'.err = "" /\ last'.ret = last.ret /\ last'.calls = <<>>)

C7_ExpiredWithoutRefresh ==
  [][/\ (IsGet(last', FALSE) /\ Expired(file, now)) =>
          /\ last'.err = "TokenExpiredError"
          /\ last'.calls = <<>>
          /\ file' = file
     /\ IsGet(last', TRUE) => last'.err # "TokenExpiredError"]_vars

\* C7: TokenExpiredError has been raised for a record of the current user.
C7_Witness ==
  /\ IsGet(last, FALSE)
  /\ last.err = "TokenExpiredError"
  /\ Expired(file, now)

\* C8: when the collaborator answers the refresh with a status other than
\* 200, get_current_token raises TokenRefreshError after that one call and
\* the document, the expired record included, is as it was.
C8_RefreshRejected ==
  [][(/\ last'.op = "get_current_token"
      /\ last'.calls # <<>>
      /\ last'.calls[1].answer.kind = "response"
      /\ last'.calls[1].answer.status # 200) =>
        /\ last'.err = "TokenRefreshError"
        /\ Len(last'.calls) = 1
        /\ file' = file
        /\ Expired(file', now')]_vars

\* C8: a refresh has been answered with a 401.
C8_Witness ==
  /\ last.op = "get_current_token"
  /\ last.err = "TokenRefreshError"
  /\ last.calls[1].answer.kind = "response"
  /\ last.calls[1].answer.status = 401

\* The service could not be reached for the call of l, or did not answer
\* in time.
Unreachable(l) ==
  /\ l.op = "get_current_token"
  /\ l.calls # <<>>
  /\ l.calls[1].answer.kind \in {"connect_error", "timeout"}

\* The service rejected the call of l.
Rejected(l) ==
  /\ l.op = "get_current_token"
  /\ l.calls # <<>>
  /\ l.calls[1].answer.kind = "response"
  /\ l.calls[1].answer.status # 200

\* C9 as stated: an unreachable service surfaces as ServiceNotRunningError
\* (ServiceUnreachable), a rejection as TokenRefreshError.
C9_UnreachableIsDistinct ==
  /\ Unreachable(last) => last.err = "ServiceNotRunningError"
  /\ Rejected(last) => last.err = "TokenRefreshError"

\* C9 as amended: an unreachable service and a rejection both surface as
\* TokenRefreshError; they differ in the exception it wraps only.
C9_BothAreRefreshError ==
  /\ Unreachable(last) =>
       /\ last.err = "TokenRefreshError"
       /\ last.cause = (IF last.calls[1].answer.kind = "connect_error"
                          THEN "ServiceNotRunningError" ELSE "TimeoutException")
  /\ Rejected(last) =>
       /\ last.err = "TokenRefreshError"
       /\ last.cause = "AuthenticationError"
  /\ last.op = "get_current_token" => last.err # "ServiceNotRunningError"

\* C9: a refresh has met a connection error.
C9_Witness ==
  /\ Unreachable(last)
  /\ last.calls[1].answer.kind = "connect_error"
  /\ last.cause = "ServiceNotRunningError"

\* C10: switch_tenant(t) with a current user u sets tenant_preferences[u]
\* and current_tenant_id to t, removes u's record, leaves u the current user
\* and touches nothing else; the get_current_token after it returns None,
\* raising nothing and calling no collaborator, for both values of
\* auto_refresh.
C10_SwitchTenant ==
  [][/\ (last'.op = "switch_tenant" /\ Stored(file).current_user # None) =>
          LET u == Stored(file).current_user[1]
              t == last'.args[1]
          IN /\ last'.err = ""
             /\ Stored(file').tenant_preferences =
                  DictSet(Stored(file).tenant_preferences, u, t)
             /\ Stored(file').current_tenant_id = Some(t)
             /\ u \notin DOMAIN Stored(file').tokens
             /\ \A v \in Users \ {u} :
                  DictGet(Stored(file').tokens, v) = DictGet(Stored(file).tokens, v)
             /\ Stored(file').current_user = Some(u)
     /\ (last.op = "switch_tenant" /\ last.err = ""
           /\ last'.op = "get_current_token") =>
          (last'.ret = None /\ last'.err = "" /\ last'.calls = <<>>)]_vars

\* C10: switch_tenant(0) has been made, the current user is left without a
\* record, and get_current_token yields None there.
C10_Witness ==
  /\ last.op = "switch_tenant"
  /\ last.err = ""
  /\ Stored(file).current_user # None
  /\ Stored(file).current_user[1] \notin DOMAIN Stored(file).tokens
  /\ Stored(file).tenant_preferences[Stored(file).current_user[1]] = 0
  /\ get_current_token(file, now, TRUE, NoAnswer).ret = None

\* C4 as stated: a load of a file that an earlier load has migrated makes
\* no write and leaves the document as it is.
C4_MigratedLoadWritesNothing ==
  [][(last.op = "load" /\ last'.op = "load") =>
       (last'.writes = 0 /\ file' = file)]_vars

\* C11: logout(email) removes the record of its target only (email, or the
\* current user when email is None), clears current_user exactly when the
\* target is the current user, and leaves tenant_preferences and every
\* other record as they were; without a target the document is as it was.
C11_LogoutFrame ==
  [][last'.op = "logout" =>
       LET tf == Stored(file)
           after == Stored(file')
           target == IF last'.args[1] # None THEN last'.args[1] ELSE tf.current_user
       IN /\ last'.err = ""
          /\ after.tenant_preferences = tf.tenant_preferences
          /\ DOMAIN after.tokens = {v \in DOMAIN tf.tokens : Some(v) # target}
          /\ \A v \in DOMAIN after.tokens : after.tokens[v] = tf.tokens[v]
          /\ after.current_user =
               (IF tf.current_user = target THEN None ELSE tf.current_user)
          /\ target = None => after = tf]_vars

\* C11: logout("b@x.com") has removed the record of b@x.com, who keeps a
\* tenant preference, while a@x.com stays the current user with a record.
C11_Witness ==
  LET tf == Stored(file)
  IN /\ last.op = "logout"
     /\ last.args[1] = Some("b@x.com")
     /\ tf.current_user = Some("a@x.com")
     /\ "a@x.com" \in DOMAIN tf.tokens
     /\ "b@x.com" \notin DOMAIN tf.tokens
     /\ "b@x.com" \in DOMAIN tf.tenant_preferences

\* A logout(u) has been made for a user u who has a tenant preference, and
\* the step is a save_token(u, ...).
ReloginStep ==
  /\ last.op = "logout"
  /\ last.args[1] # None
  /\ last.args[1][1] \in DOMAIN Stored(file).tenant_preferences
  /\ last'.op = "save_token"
  /\ last'.args[1] = last.args[1][1]

\* C12 as stated: after logout(u) and a save_token(u, ...) with whatever
\* access token, get_current_tenant_id() returns the preference u had.
C12_PreferenceSurvivesRelogin ==
  [][ReloginStep =>
       get_current_tenant_id(file').ret =
         Some(Stored(file).tenant_preferences[last'.args[1]])]_vars

\* C12 as amended: after logout(u) and a save_token(u, ...) whose access
\* token yields no tenant, or yields the tenant u prefers,
\* get_current_tenant_id() returns the preference u had.
C12_PreferenceSurvivesSameTenant ==
  [][(/\ ReloginStep
      /\ get_tenant_id_from_token(last'.args[2].access_token)
            \in {None, Some(Stored(file).tenant_preferences[last'.args[1]])}) =>
       /\ last'.err = ""
       /\ get_current_tenant_id(file').ret =
            Some(Stored(file).tenant_preferences[last'.args[1]])]_vars

\* C12: logout("a@x.com") has removed the record of a user who prefers
\* tenant 1, and a save_token with a token without tenant claim gives
\* get_current_tenant_id() = 1 there.
C12_Witness ==
  /\ last.op = "logout"
  /\ last.args[1] = Some("a@x.com")
  /\ DictGet(Stored(file).tenant_preferences, "a@x.com") = Some(1)
  /\ "a@x.com" \notin DOMAIN Stored(file).tokens
  /\ get_current_tenant_id(
       save_token(file, now, "a@x.com", TokenResponse(None, 1)).file).ret = Some(1)

\* C13 as stated: save_token(u, response) with a token that yields the
\* tenant t, zero included, leaves the record's tenant_id,
\* tenant_preferences[u] and current_tenant_id equal to t; with a token that
\* yields none, the record's tenant_id is None and tenant_preferences and
\* current_tenant_id are as they were.  The preferences of the other users
\* are as they were.
C13_SaveSetsTenant ==
  [][last'.op = "save_token" =>
       LET u == last'.args[1]
           tid == get_tenant_id_from_token(last'.args[2].access_token)
           tf == Stored(file)
           after == Stored(file')
       IN /\ last'.err = ""
          /\ after.tokens[u].tenant_id = tid
          /\ tid # None =>
               /\ DictGet(after.tenant_preferences, u) = tid
               /\ after.current_tenant_id = tid
          /\ tid = None =>
               /\ after.tenant_preferences = tf.tenant_preferences
               /\ after.current_tenant_id = tf.current_tenant_id
          /\ \A v \in Users \ {u} :
               DictGet(after.tenant_preferences, v) = DictGet(tf.tenant_preferences, v)]_vars

\* The store path holds content that is no Session Store document: bytes
\* that are no JSON, JSON that is no object, or an object of the wrong
\* shape.
Corrupt(f) == f.kind \in {"garbage", "json_non_object", "json_wrong_shape"}

\* A step that leaves disk as it is is a call: last' records it.
CallStep == disk' = disk

\* C14 as stated: on every corrupt content, get_current_token(False)
\* returns None and raises nothing, and a save_token (of a token whose
\* tenant claim int() takes, on a filesystem that takes the write) succeeds
\* and leaves the document a save on an absent file leaves.
C14_CorruptIsAbsent ==
  [][(Corrupt(file) /\ CallStep) =>
       /\ IsGet(last', FALSE) => (last'.err = "" /\ last'.ret = None)
       /\ (/\ last'.op = "save_token"
           /\ ~WriteFails
           /\ get_tenant_id_from_token_raises(last'.args[2].access_token) = "") =>
            /\ last'.err = ""
            /\ file' = save_token(MissingFile, now, last'.args[1], last'.args[2]).file]_vars

\* C15 as stated: in every state of every interleaving of the writers, the
\* file under the store path has mode 0600.
C15_StoreIsOwnerOnly == paths.final.mode = "0600"

\* A file that holds a document with at least one Credential Record.
HoldsCredentials(f) ==
  f.content.kind = "json" /\ DOMAIN f.content.data.tokens # {}

\* C16 as stated: no file that holds credentials, the temporary file
\* included, has a mode wider than 0600 in any state.
C16_NoReadableCredentials ==
  /\ HoldsCredentials(paths.final) => paths.final.mode = "0600"
  /\ (paths.tmp # None /\ HoldsCredentials(paths.tmp[1])) => paths.tmp[1].mode = "0600"

\* A store file written by a version without tenants: no record has the
\* key tenant_id, and the document has neither tenant_preferences nor
\* current_tenant_id.
OldFormat(f) ==
  /\ f.kind = "json"
  /\ f.data.lacks = {"current_tenant_id", "tenant_preferences"}
  /\ f.data.no_tenant_id = DOMAIN f.data.tokens

\* C17 as stated: the first load of an old-format document leaves, in the
\* store file, the same users, current_user, tokens and expiry; each
\* record's tenant_id is the tenant its own access token yields;
\* tenant_preferences holds that tenant for exactly the users whose token
\* yields one (zero included); and current_tenant_id is the preference of
\* the current user.
C17_MigrationOfOldFormat ==
  [][(last.op = "init" /\ last'.op = "load" /\ OldFormat(file)) =>
       LET old == Stored(file)
           new == Stored(file')
           derived(u) == get_tenant_id_from_token(old.tokens[u].access_token)
       IN /\ DOMAIN new.tokens = DOMAIN old.tokens
          /\ new.current_user = old.current_user
          /\ \A u \in DOMAIN old.tokens :
               new.tokens[u] = [old.tokens[u] EXCEPT !.tenant_id = derived(u)]
          /\ new.tenant_preferences =
               [u \in {v \in DOMAIN old.tokens : derived(v) # None} |-> derived(u)[1]]
          /\ new.current_tenant_id =
               (IF old.current_user = None THEN None
                ELSE DictGet(new.tenant_preferences, old.current_user[1]))]_vars

\* C18: switch_user(u) raises TokenNotFoundError (the error the code has
\* for both "user not found" and "no active user") exactly when u has no
\* record, and succeeds otherwise; switch_tenant(t) without a current user
\* raises TokenNotFoundError; a call that fails so leaves the store file as
\* it was.
C18_SwitchFailures ==
  [][/\ last'.op = "switch_user" =>
          IF last'.args[1] \in DOMAIN Stored(file).tokens
            THEN last'.err = ""
            ELSE last'.err = "TokenNotFoundError" /\ file' = file
     /\ (last'.op = "switch_tenant" /\ Stored(file).current_user = None) =>
          (last'.err = "TokenNotFoundError" /\ file' = file)]_vars

\* C18: switch_user has failed for a user without a record while the other
\* user has one and is the current user.
C18_Witness ==
  /\ last.op = "switch_user"
  /\ last.err = "TokenNotFoundError"
  /\ last.args[1] \notin DOMAIN Stored(file).tokens
  /\ Stored(file).current_user # None
  /\ Stored(file).current_user[1] \in DOMAIN Stored(file).tokens

\* C19 as stated: whatever the tenant claim of a token is, no call on a
\* store file that holds a JSON object, or no file at all, is left by the
\* TypeError of the tenant extraction, directly or wrapped: neither a
\* save_token of the token nor the migration of a record that holds it.
C19_TenantClaimNeverAborts ==
  [][(CallStep /\ file.kind # "json_non_object") =>
       (last'.err # "TypeError" /\ last'.cause # "TypeError")]_vars

\* C20 as stated: the OSError of a failing write is never the cause of a
\* TokenRefreshError: it leaves every call as it is.
C20_FilesystemErrorUntranslated ==
  last.err = "TokenRefreshError" => last.cause # "OSError"

\* C21: save_token(u, response) makes u the current user, stores for u the
\* tokens of the response, leaves the record of every other user as it
\* was, and list_users afterwards gives the users before plus u; so
\* after saves for several users the current user is the one saved last.
C21_SaveFrame ==
  [][(last'.op = "save_token" /\ last'.err = "") =>
       LET old == Stored(file)
           new == Stored(file')
           u == last'.args[1]
       IN /\ new.current_user = Some(u)
          /\ get_current_user(file').ret = Some(u)
          /\ DOMAIN new.tokens = DOMAIN old.tokens \cup {u}
          /\ list_users(file').ret = Some(DOMAIN old.tokens \cup {u})
          /\ new.tokens[u].access_token = last'.args[2].access_token
          /\ new.tokens[u].refresh_token = last'.args[2].refresh_token
          /\ \A v \in DOMAIN old.tokens \ {u} : new.tokens[v] = old.tokens[v]]_vars

\* C21: b@x.com has been saved while a@x.com has a record; both are
\* listed and b@x.com is the current user.
C21_Witness ==
  /\ last.op = "save_token"
  /\ last.err = ""
  /\ last.args[1] = "b@x.com"
  /\ DOMAIN Stored(file).tokens = {"a@x.com", "b@x.com"}
  /\ Stored(file).current_user = Some("b@x.com")

C23_RecordTenantIsTokenClaim ==
  \A e \in DOMAIN Stored(file).tokens :
    LET rec == Stored(file).tokens[e]
    IN rec.tenant_id # None =>
         (rec.access_token.kind = "jwt" /\ rec.tenant_id = rec.access_token.tenant_claim)

\* C23: the store file holds the record of the old-format file (same
\* refresh token and expiry), which had no tenant_id, with the tenant 1 of
\* its token: the migration has filled it in.
C23_Witness ==
  /\ file.kind = "json"
  /\ "a@x.com" \in DOMAIN file.data.tokens
  /\ file.data.no_tenant_id = {}
  /\ file.data.tokens["a@x.com"].refresh_token = RefreshTok(None)
  /\ file.data.tokens["a@x.com"].expires_at = 1
  /\ file.data.tokens["a@x.com"].tenant_id = Some(1)

\* C24 as stated: a command run on an expired session whose refresh fails
\* (get_current_token raises) prints the instruction to log in again and
\* exits with a code that is not 0.
C24_RefreshFailureAsksForLogin ==
  [][(last'.op = "command" /\ Expired(file, now) /\ last'.err # "") =>
       (last'.exit # 0 /\ last'.login_hint)]_vars

\* C25 as stated: after the logout of a user has completed, and until a
\* login or a refresh for that user is started, a step that brings the
\* user's record back into the store file is the write of a save_token for
\* that user.
C25_RecordEntersBySaveOnly ==
  [][\A u \in last.gone :
       (u \notin DOMAIN Stored(file).tokens /\ u \in DOMAIN Stored(file').tokens) =>
         \E p \in Procs :
           /\ procs[p].pc = "write"
           /\ procs'[p] # procs[p]
           /\ procs[p].op \in {"save_token", "get_current_token"}
           /\ procs[p].email = Some(u)]_vars

\* The record of the current user in the store file f.
CurrentRecord(f) == Stored(f).tokens[Stored(f).current_user[1]]

HasCurrentRecord(f) ==
  /\ Stored(f).current_user # None
  /\ Stored(f).current_user[1] \in DOMAIN Stored(f).tokens

\* get_current_token has returned the stored access token without a
\* refresh.
GaveStored(l, f) == l.err = "" /\ l.ret = Some(CurrentRecord(f).access_token) /\ l.calls = <<>>

\* get_current_token has treated the stored token as expired: it raised
\* TokenExpiredError without auto_refresh, and called the refresh with it.
TreatedExpired(l) ==
  IF l.args[1] THEN l.calls # <<>> ELSE l.err = "TokenExpiredError" /\ l.calls = <<>>

ReadOperations == {"get_current_user", "get_current_tenant_id", "get_refresh_token", "list_users"}

\* C27 as stated: a process that runs only a read operation never changes
\* what the store path holds, so it never overwrites or undoes what another
\* process has committed meanwhile.
C27_ReadersNeverWrite ==
  [][\A p \in Procs :
       (procs[p].op \in ReadOperations /\ procs'[p].pc # procs[p].pc) =>
         paths'.final = paths.final]_vars

\* C28 as stated: a refresh in progress stores the tokens the auth service
\* returned under the user whose refresh token it sent, and that user is
\* the one whose expired record started the refresh, whatever the other
\* processes do meanwhile.
C28_RefreshedTokensUnderOwner ==
  \A p \in Procs :
    (procs[p].op = "get_current_token" /\ procs[p].pc \in {"save_read", "write"}) =>
      /\ procs[p].email = procs[p].owner
      /\ procs[p].owner = procs[p].trig

\* C29 as stated: get_current_token with auto_refresh ends by giving a
\* token, by giving None or with TokenRefreshError; no other exception
\* leaves it, with an empty refresh token or a logout by another process
\* between the expiry check and the refresh included.
C29_ThreeOutcomes ==
  \A p \in Procs :
    (procs[p].op = "get_current_token" /\ procs[p].pc = "idle") =>
      \/ procs[p].err = "" /\ procs[p].gave \in {"token", "none"}
      \/ procs[p].err = "TokenRefreshError"

\* C30 as stated: the refresh token that `auth logout --email X` sends to
\* the auth service for revocation is the one in the record of X, the user
\* whose record the command then removes; it is never the refresh token of
\* another user.
C30_RevokesTokenOfTarget ==
  [][(/\ last'.op = "auth_logout"
      /\ last'.revoked # None
      /\ last'.target[1] \in DOMAIN Stored(file).tokens) =>
       last'.revoked = Some(Stored(file).tokens[last'.target[1]].refresh_token)]_vars

\* C5 as stated: what a process reads under the store path is a complete
\* document: never the empty file of a writer that has just opened it, nor
\* bytes that do not parse.
C5_ReaderSeesCompleteDocument ==
  \A p \in Procs : procs[p].seen \in {"", "json"}

====
